---- MODULE Spec2Model ----
(***************************************************************************)
(* A model of social_auth: the OAuth handshake kept in the session, the    *)
(* views (auth, complete, associate_complete, disconnect) and              *)
(* SocialAuthBackend.authenticate working on the user and association      *)
(* tables.  The requests of one browser session are handled by two request *)
(* threads; a request is split into steps at its database statements, so   *)
(* that the statements of two requests interleave.                         *)
(***************************************************************************)
EXTENDS Naturals, Integers, Sequences, FiniteSets, TLC

VARIABLES
    users,        \* committed rows of the User table
    assocs,       \* committed rows of the UserSocialAuth table
    nextUserId,   \* the User table's id sequence
    nextAssocId,  \* the UserSocialAuth table's id sequence
    session,      \* session[backend]: the unauthorized token string kept in the session
    settings,     \* django.conf.settings, fixed for a run
    pc,           \* pc[p]: where request thread p stands
    req,          \* req[p]: the locals of the request p is handling, and its answer
    unlinked,     \* history: the association rows disconnect deleted
    openid        \* the OpenID response get_user_details is given, and its answer

vars == <<users, assocs, nextUserId, nextAssocId, session, settings, pc, req,
          unlinked, openid>>

\* ------------------------------------------------------------------ bounds

MaxUserId == 3
MaxAssocId == 2
MaxProbes == 5
MaxLen == 3

\* ------------------------------------------------------------- the domains

Procs == {"r1", "r2"}
Rank == [p \in Procs |-> IF p = "r1" THEN 1 ELSE 2]
OAuthBackends == {"twitter", "github"}
Uids == {"123", "456"}
Usernames == {"alice"}
Emails == {"a@x.org"}
Fullnames == {"Alice A"}
TokenKeys == {"tk1", "no-token"}
AccessTokens == {"at1"}

NoUser == 0
NoAssocId == 0
NoToken == <<>>
NoPair == <<"", "">>
NoBackend == "None"
UnknownBackends == {"myspace"}
Views == {"auth", "associate", "complete", "associate_complete", "disconnect"}
Pairs == OAuthBackends \X Uids

NoUserObj == [id |-> NoUser, username |-> "", email |-> "", is_active |-> FALSE,
              origin |-> NoPair]
NoAssoc == [id |-> NoAssocId, user |-> NoUser, provider |-> "", uid |-> "",
            extra_data |-> <<>>]
NoResponse == [id |-> "", username |-> "", email |-> "", fullname |-> "",
               access_token |-> ""]
NoDetails == [username |-> "", email |-> "", fullname |-> ""]

\* what user_data answers, with the access token added to it
ResponsesOf(tokens) == [id : Uids, username : Usernames, email : Emails,
                        fullname : Fullnames, access_token : tokens]

Responses == ResponsesOf(AccessTokens)

\* the OpenID backend's name, and the successful responses of the OpenID consumer:
\* the identity url (id), the attributes, and the values of the names configured
\* in OPENID_SREG_EXTRA_DATA and OPENID_AX_EXTRA_DATA (extra), none when the
\* response carries no such attribute
OpenID == "openid"
OpenIDResponses == [id : {"123"}, username : Usernames, email : Emails,
                    fullname : Fullnames, access_token : {""},
                    extra : {<<>>, <<"language", "en">>}]

\* response.status of the OpenID consumer; "None" when there is no response
OpenIDStatus == {"SUCCESS", "FAILURE", "CANCEL", "SETUP_NEEDED", "None"}

\* the registry
BACKENDS == OAuthBackends \cup {OpenID}

IdleReq == [view |-> "none", backend |-> "", data |-> <<>>, kwuser |-> NoUser,
            has_user |-> FALSE,
            response |-> NoResponse, details |-> NoDetails, uid |-> "",
            is_new |-> FALSE, username |-> "", name |-> "", idx |-> 0,
            user |-> NoUserObj,
            social_user |-> NoAssoc, managed |-> FALSE,
            txUsers |-> {}, txAssocs |-> {}, events |-> <<>>, signals |-> {},
            http |-> "none", error |-> "", returned |-> NoUser, login |-> NoUser]

\* --------------------------------------------------------------- storage

Ids(rows) == {x.id : x \in rows}

\* rows written over a table: a row replaces the row of the same primary key
Overlay(base, written) == {x \in base : x.id \notin Ids(written)} \cup written

\* what request p reads: the committed rows and its own uncommitted writes
VisibleUsers(p) == Overlay(users, req[p].txUsers)
VisibleAssocs(p) == Overlay(assocs, req[p].txAssocs)

\* rows other requests wrote in a transaction that is still open
OthersTxUsers(p) == UNION {req[q].txUsers : q \in Procs \ {p}}
OthersTxAssocs(p) == UNION {req[q].txAssocs : q \in Procs \ {p}}

\* (a variant: the complete view loses its decorator)
commit_never(view) == FALSE

\* @transaction.commit_on_success wraps the complete view only; the other views
\* run unmanaged, where the ORM commits after every write
commit_on_success(view) == view = "complete"

\* (a variant: the association table has no unique index)
unique_together_dropped(rows, provider, uid) == FALSE

\* the unique index on (provider, uid) of the association table: whether a row of
\* `rows` forbids the insert of (provider, uid)
unique_together(rows, provider, uid) ==
    \E a \in rows : a.provider = provider /\ a.uid = uid

\* User.username is unique
unique_username(rows, username) == \E u \in rows : u.username = username

\* a write of request r: kept in its transaction when managed, else committed
TxPut(r, written, row) ==
    IF r.managed THEN {x \in written : x.id # row.id} \cup {row} ELSE written
DbPut(r, table, row) ==
    IF r.managed THEN table ELSE {x \in table : x.id # row.id} \cup {row}

\* --------------------------------------------------------- OAuth token strings

\* OAuthToken.to_string / OAuthToken.from_string
to_string(key) == <<"oauth_token", key>>
from_string(s) == [key |-> s[2]]

\* self.data.get(name, default): data is <<>> without the parameter, else <<value>>
DataGet(data, default) == IF data = <<>> THEN default ELSE data[1]

CallbackData == {<<>>} \cup {<<k>> : k \in TokenKeys}

\* ------------------------------------------------------------- the backend

\* get_user_details / get_user_id of an OAuth backend: the details are the
\* entries of the known struct that the provider's answer holds
DetailNames == {"username", "email", "fullname"}
get_user_details(response) ==
    [n \in DOMAIN response \cap DetailNames |-> response[n]]
get_user_id(details, response) == response.id

\* extra_data of the backend: OAuthBackend.extra_data always holds access_token;
\* OpenIDBackend.extra_data holds the values of the configured names
extra_data(backend, response) ==
    IF backend = OpenID THEN response.extra
    ELSE <<"access_token", response.access_token>>

\* get_random_username(): the first 30 hex digits of the md5 of ten random bytes,
\* here one of two tokens
RandomNames == {"d41d8cd98f", "9e107d9d37"}

\* SOCIAL_AUTH_DEFAULT_USERNAME: not set, a value, or a callable that answers a value
NoDefault == [hasattr |-> FALSE, callable |-> FALSE, value |-> ""]
DefaultUsernames == {NoDefault,
                     [hasattr |-> TRUE, callable |-> FALSE, value |-> "guest"],
                     [hasattr |-> TRUE, callable |-> TRUE, value |-> "visitor"]}

\* (a variant: an empty username of the profile is passed over)
base_username_nonempty(config, details, token) ==
    IF config.SOCIAL_AUTH_FORCE_RANDOM_USERNAME THEN token
    ELSE IF "username" \in DOMAIN details /\ details.username # ""
    THEN details.username
    ELSE IF config.SOCIAL_AUTH_DEFAULT_USERNAME.hasattr
    THEN config.SOCIAL_AUTH_DEFAULT_USERNAME.value
    ELSE token

\* SocialAuthBackend.username, the name it begins with: random when forced, else
\* details[USERNAME] when the key is in details, else the default of the settings
\* (called when callable), else random
base_username(config, details, token) ==
    IF config.SOCIAL_AUTH_FORCE_RANDOM_USERNAME THEN token
    ELSE IF "username" \in DOMAIN details THEN details.username
    ELSE IF config.SOCIAL_AUTH_DEFAULT_USERNAME.hasattr
    THEN config.SOCIAL_AUTH_DEFAULT_USERNAME.value
    ELSE token

\* SOCIAL_AUTH_USERNAME_FIXER: by default lambda u: u; "constant" is a fixer that
\* answers the same name for every candidate, lambda u: 'bob'
fixer(config, name) ==
    IF config.SOCIAL_AUTH_USERNAME_FIXER = "identity" THEN name ELSE "bob"

\* (a variant: the suffix is appended to the candidate, not to the base name)
next_name_appended(username, name, idx) == name \o ToString(idx)

\* name = username + str(idx)
next_name(username, name, idx) == username \o ToString(idx)

\* ----------------------------------------------- the OpenID attribute mapper

\* a text is the sequence of its characters; '' is the empty sequence, which is
\* also what an attribute the provider did not send reads as
Letters == {"a", "A"}
Chars == {"a", " "}
Texts == UNION {[1..n -> Chars] : n \in 0..MaxLen}
Empty == <<>>

\* dict.update
Update(d, e) ==
    [k \in DOMAIN d \cup DOMAIN e |-> IF k \in DOMAIN e THEN e[k] ELSE d[k]]

\* str.title(): the letter that begins a word in upper case, the others in lower
title(s) ==
    [i \in 1..Len(s) |->
        IF i = 1 \/ s[i - 1] \notin Letters
        THEN (IF s[i] = "a" THEN "A" ELSE s[i])
        ELSE (IF s[i] = "A" THEN "a" ELSE s[i])]

\* str.rsplit(' ', 1): the text cut at its last space, or the text alone
rsplit(s) ==
    LET at == {i \in 1..Len(s) : s[i] = " "}
    IN  IF at = {} THEN <<s>>
        ELSE LET i == CHOOSE j \in at : \A k \in at : k <= j
             IN  <<SubSeq(s, 1, i - 1), SubSeq(s, i + 1, Len(s))>>

\* the Simple Registration and the Attribute Exchange parts of a response, absent
\* (fromSuccessResponse answers None) or holding a text for each attribute
NoSReg == [present |-> FALSE, email |-> Empty, fullname |-> Empty, nickname |-> Empty]
NoAX == [present |-> FALSE, old_email |-> Empty, old_fullname |-> Empty,
         old_nickname |-> Empty, email |-> Empty, fullname |-> Empty,
         first_name |-> Empty, last_name |-> Empty, nickname |-> Empty]
NoProfile == [sreg |-> NoSReg, ax |-> NoAX]

\* the responses of a provider that sends names: by Simple Registration no full
\* name or one, by Attribute Exchange any full, first and last name, no full
\* name or one under the old schema, and no email or one under either schema
Profiles ==
    [sreg : {NoSReg} \cup {[NoSReg EXCEPT !.present = TRUE, !.fullname = f] :
                              f \in {Empty, <<"a", " ", "a">>}},
     ax : {NoAX} \cup {[NoAX EXCEPT !.present = TRUE, !.old_fullname = o,
                                    !.fullname = f, !.first_name = g,
                                    !.last_name = l, !.old_email = oe,
                                    !.email = e] :
                          o \in {Empty, <<"a">>}, f \in Texts, g \in Texts,
                          l \in Texts, oe \in {Empty, <<"a">>},
                          e \in {Empty, <<"a", "a">>}}]

\* OpenIDBackend.values_from_response with SREG_ATTR and OLD_AX_ATTRS +
\* AX_SCHEMA_ATTRS: the old schema's aliases lose their old_ and are updated first
values_from_response(response) ==
    LET sreg == IF response.sreg.present
                THEN [email |-> response.sreg.email,
                      fullname |-> response.sreg.fullname,
                      nickname |-> response.sreg.nickname]
                ELSE <<>>
        old == [email |-> response.ax.old_email,
                fullname |-> response.ax.old_fullname,
                nickname |-> response.ax.old_nickname]
        new == [email |-> response.ax.email,
                fullname |-> response.ax.fullname,
                first_name |-> response.ax.first_name,
                last_name |-> response.ax.last_name,
                nickname |-> response.ax.nickname]
    IN  IF response.ax.present THEN Update(Update(sreg, old), new) ELSE sreg

\* what OpenIDBackend.get_user_details begins with: its defaults, updated with
\* the values of the response
openid_values(response) ==
    Update([username |-> Empty, email |-> Empty, fullname |-> Empty,
            first_name |-> Empty, last_name |-> Empty],
           values_from_response(response))

\* OpenIDBackend.get_user_details
openid_user_details(response) ==
    LET values == openid_values(response)
        joined == values["fullname"] = Empty /\ values["first_name"] # Empty
                     /\ values["last_name"] # Empty
        parts == rsplit(values["fullname"])
        fullname == IF joined
                    THEN values["first_name"] \o <<" ">> \o values["last_name"]
                    ELSE values["fullname"]
        first_name == IF ~joined /\ values["fullname"] # Empty /\ Len(parts) = 2
                      THEN parts[1] ELSE values["first_name"]
        last_name == IF ~joined /\ values["fullname"] # Empty
                     THEN (IF Len(parts) = 2 THEN parts[2] ELSE values["fullname"])
                     ELSE values["last_name"]
    IN  Update(values,
               [fullname |-> fullname, first_name |-> first_name,
                last_name |-> last_name,
                username |-> IF values["username"] # Empty THEN values["username"]
                             ELSE title(first_name) \o title(last_name)])

\* get_user_details not yet called with the response
Unmapped(response) == [response |-> response, called |-> FALSE, details |-> <<>>]

\* get_user_details is called with the response and answers
openid_get_user_details ==
    /\ ~openid.called
    /\ openid' = [openid EXCEPT !.called = TRUE,
                                !.details = openid_user_details(openid.response)]
    /\ UNCHANGED <<users, assocs, nextUserId, nextAssocId, session, settings, pc,
                   req, unlinked>>

\* --------------------------------------------------------------------- Init

\* usernames of people who registered with the site itself, in the order of
\* their registration
Registered == <<"bob", "alice", "alice2">>

\* the rows of the users `names`, of Registered, registered in that order
UserRows(names, active) ==
    {[id |-> Cardinality({j \in 1..i : Registered[j] \in names}),
      username |-> Registered[i], email |-> "", is_active |-> active,
      origin |-> NoPair] : i \in {j \in DOMAIN Registered : Registered[j] \in names}}

\* the user table holds users who registered with the site itself; nobody has begun
\* an authentication
InitRequests(tables, configs) ==
    /\ users \in tables
    /\ assocs = {}
    /\ nextUserId = Cardinality(users) + 1
    /\ nextAssocId = 1
    /\ session = [b \in OAuthBackends |-> NoToken]
    /\ settings \in configs
    /\ pc = [p \in Procs |-> "idle"]
    /\ req = [p \in Procs |-> IdleReq]
    /\ unlinked = {}

\* and no OpenID response is at hand
InitWith(tables, configs) ==
    /\ InitRequests(tables, configs)
    /\ openid = Unmapped(NoProfile)

\* the settings' defaults: getattr(settings, name, True), lambda u: u
DefaultSettings == [SOCIAL_AUTH_CREATE_USERS |-> TRUE, SOCIAL_AUTH_EXTRA_DATA |-> TRUE,
                    SOCIAL_AUTH_USERNAME_FIXER |-> "identity",
                    SOCIAL_AUTH_CHANGE_SIGNAL_ONLY |-> FALSE,
                    SOCIAL_AUTH_FORCE_RANDOM_USERNAME |-> FALSE,
                    SOCIAL_AUTH_DEFAULT_USERNAME |-> NoDefault]

\* every configuration of the two switches
Settings == [SOCIAL_AUTH_CREATE_USERS : BOOLEAN, SOCIAL_AUTH_EXTRA_DATA : BOOLEAN,
             SOCIAL_AUTH_USERNAME_FIXER : {"identity"},
             SOCIAL_AUTH_CHANGE_SIGNAL_ONLY : {FALSE},
             SOCIAL_AUTH_FORCE_RANDOM_USERNAME : {FALSE},
             SOCIAL_AUTH_DEFAULT_USERNAME : {NoDefault}]

\* the default configuration with either fixer
FixerSettings == {[DefaultSettings EXCEPT !.SOCIAL_AUTH_USERNAME_FIXER = f] :
                     f \in {"identity", "constant"}}

Init == InitWith({UserRows({"bob"}, TRUE)}, {DefaultSettings})

InitSequential == InitWith({UserRows({"bob"}, a) : a \in BOOLEAN}, Settings)

\* at most two users registered, with any of the names
InitUsername ==
    InitWith({UserRows(names, TRUE) :
                 names \in {n \in SUBSET {Registered[i] : i \in DOMAIN Registered} :
                               Cardinality(n) <= 2}},
             FixerSettings)

\* ------------------------------------------------- how a request goes on, ends

Log(r, e) == [r EXCEPT !.events = Append(@, e)]

\* request p goes on to its next statement
Step(p, r, us, as, next) ==
    /\ req' = [req EXCEPT ![p] = r]
    /\ pc' = [pc EXCEPT ![p] = next]
    /\ users' = us
    /\ assocs' = as

\* request p ends with an HTTP response; commit_on_success commits when the view
\* returns and rolls back when an exception leaves it
End(p, r, us, as, http, error, user, login) ==
    LET commit == r.managed /\ http # "exception" IN
    /\ req' = [req EXCEPT ![p] = [r EXCEPT !.txUsers = {}, !.txAssocs = {},
                                           !.http = http, !.error = error,
                                           !.returned = user, !.login = login]]
    /\ pc' = [pc EXCEPT ![p] = "done"]
    /\ users' = IF commit THEN Overlay(us, r.txUsers) ELSE us
    /\ assocs' = IF commit THEN Overlay(as, r.txAssocs) ELSE as

\* a ValueError leaves auth_complete: complete_process catches it and redirects to
\* LOGIN_ERROR_URL, associate_complete does not catch it
RaiseValueError(p, r, message) ==
    End(p, r, users, assocs,
        IF r.view = "complete" THEN "redirect_error" ELSE "exception",
        message, NoUser, NoUser)

\* any other exception leaves the view
RaiseException(p, r, message) ==
    End(p, r, users, assocs, "exception", message, NoUser, NoUser)

\* ids left for every request in flight and one more
IdsLeft ==
    LET inflight == Cardinality({q \in Procs : pc[q] \notin {"idle", "done"}}) IN
    /\ nextUserId + inflight <= MaxUserId
    /\ nextAssocId + inflight <= MaxAssocId

\* -------------------------------------------------------------------- views

\* get_backend: the backend registered under the name, NoBackend (None) otherwise
get_backend(name) == IF name \in BACKENDS THEN name ELSE NoBackend

\* a view called with a name get_backend answers None for: it returns
\* HttpResponseServerError('Incorrect authentication service'), status 500
incorrect_service(p, view, name) ==
    /\ pc[p] = "idle"
    /\ get_backend(name) = NoBackend
    /\ req' = [req EXCEPT ![p] = [IdleReq EXCEPT !.view = view, !.backend = name,
                                                 !.http = "server_error"]]
    /\ pc' = [pc EXCEPT ![p] = "done"]
    /\ UNCHANGED <<users, assocs, nextUserId, nextAssocId, session, settings,
                   unlinked, openid>>

\* auth and associate views (auth_process), ConsumerBasedOAuth.auth_url: fetch an
\* unauthorized token and keep it in the session
auth(p, backend, key) ==
    /\ pc[p] = "idle"
    /\ get_backend(backend) # NoBackend
    /\ session' = [session EXCEPT ![backend] = to_string(key)]
    /\ req' = [req EXCEPT ![p] = [IdleReq EXCEPT !.view = "auth", !.backend = backend,
                                                 !.http = "redirect_provider"]]
    /\ pc' = [pc EXCEPT ![p] = "done"]
    /\ UNCHANGED <<users, assocs, nextUserId, nextAssocId, settings, unlinked, openid>>

\* (a variant: the query forgets the provider)
lookup_any_provider(rows, provider, uid) == {a \in rows : a.uid = uid}

\* UserSocialAuth.objects.select_related('user').get(provider=self.name, uid=uid):
\* the rows the query matches
lookup(rows, provider, uid) == {a \in rows : a.provider = provider /\ a.uid = uid}

\* (a variant: the request's user is not looked at)
new_user_always(kwuser) == TRUE

\* user = kwargs.get('user'); if user is None: a new user
new_user(kwuser) == kwuser = NoUser

\* (a variant: the setting is not read)
create_users_always(config) == TRUE

\* if not getattr(settings, 'SOCIAL_AUTH_CREATE_USERS', True): return None
create_users(config) == config.SOCIAL_AUTH_CREATE_USERS

\* (a variant: the association's user is not compared)
account_in_use_never(has_user, kwuser, social_user) == FALSE

\* if 'user' in kwargs and kwargs['user'] != social_user.user: raise ValueError
account_in_use(has_user, kwuser, social_user) == has_user /\ kwuser # social_user.user

\* (a variant: a missing pending token is compared like any other)
check_tokens_compare_first(unauthed_token, data) ==
    IF unauthed_token = NoToken \/ from_string(unauthed_token).key # DataGet(data, "no-token")
    THEN [error |-> "Incorrect tokens", events |-> <<"session_get", "token_compare">>]
    ELSE [error |-> "", events |-> <<"session_get", "token_compare">>]

\* the start of ConsumerBasedOAuth.auth_complete: the ValueError raised for the
\* pending token and the callback's oauth_token ("" when none is raised), and the
\* steps taken
check_tokens(unauthed_token, data) ==
    IF unauthed_token = NoToken
    THEN [error |-> "Missing unauthorized token", events |-> <<"session_get">>]
    ELSE IF from_string(unauthed_token).key # DataGet(data, "no-token")
    THEN [error |-> "Incorrect tokens", events |-> <<"session_get", "token_compare">>]
    ELSE [error |-> "", events |-> <<"session_get", "token_compare">>]

\* SocialAuthBackend.authenticate from its start to the association lookup and the
\* branch the lookup decides
authenticate(p, r0) ==
    LET details == get_user_details(r0.response)
        uid == get_user_id(details, r0.response)
        r1 == Log(Log([r0 EXCEPT !.details = details, !.uid = uid], "authenticate"),
                  "lookup")
        found == lookup(Overlay(assocs, r0.txAssocs), r0.backend, uid)
    IN
    IF found = {}
    THEN \* UserSocialAuth.DoesNotExist
         IF new_user(r1.kwuser)
         THEN IF ~create_users(settings)
              THEN \* return None: the view finds no user
                   End(p, r1, users, assocs, "redirect_error", "", NoUser, NoUser)
              ELSE \* username = ...; name, idx = username, 2
                   \E token \in RandomNames :
                       LET base == base_username(settings, details, token) IN
                       Step(p, [r1 EXCEPT !.username = base, !.name = base,
                                          !.idx = 2],
                            users, assocs, "username")
         ELSE Step(p, r1, users, assocs, "associate_auth")
    ELSE IF Cardinality(found) > 1
    THEN RaiseException(p, r1, "MultipleObjectsReturned")
    ELSE LET social_user == CHOOSE a \in found : TRUE IN
         IF account_in_use(r1.has_user, r1.kwuser, social_user)
         THEN RaiseValueError(p, r1, "Account already in use.")
         ELSE Step(p, [r1 EXCEPT !.social_user = social_user,
                                 !.user = CHOOSE u \in users : u.id = social_user.user],
                   users, assocs, "update_user_details")

\* ConsumerBasedOAuth.auth_complete, called by complete_process (kwuser = NoUser)
\* and by associate_complete (user=request.user), up to authenticate's lookup
auth_complete(p, view, backend, data, response, kwuser) ==
    LET r0 == [IdleReq EXCEPT !.view = view, !.backend = backend, !.data = data,
                              !.managed = commit_on_success(view),
                              !.kwuser = kwuser, !.has_user = (view # "complete"),
                              !.user = IF kwuser = NoUser THEN NoUserObj
                                       ELSE CHOOSE u \in users : u.id = kwuser]
        checked == check_tokens(session[backend], data)
        r1 == [r0 EXCEPT !.events = checked.events]
    IN
    /\ pc[p] = "idle"
    /\ get_backend(backend) # NoBackend
    /\ IdsLeft
    /\ IF checked.error # ""
       THEN RaiseValueError(p, r1, checked.error)
       ELSE authenticate(p, [Log(Log(r1, "access_token"), "user_data")
                                EXCEPT !.response = response])
    /\ UNCHANGED <<nextUserId, nextAssocId, session, settings, unlinked, openid>>

\* OpenIdAuth.auth_complete, called by complete_process and by associate_complete:
\* the consumer's answer decides between authenticate and a ValueError
openid_auth_complete(p, view, status, response, kwuser) ==
    LET r0 == [IdleReq EXCEPT !.view = view, !.backend = OpenID,
                              !.managed = commit_on_success(view),
                              !.kwuser = kwuser, !.has_user = (view # "complete"),
                              !.user = IF kwuser = NoUser THEN NoUserObj
                                       ELSE CHOOSE u \in users : u.id = kwuser]
        r1 == Log(r0, "consumer_complete")
    IN
    /\ pc[p] = "idle"
    /\ get_backend(OpenID) # NoBackend
    /\ IdsLeft
    /\ IF status = "None"
       THEN RaiseValueError(p, r1, "This is an OpenID relying party endpoint")
       ELSE IF status = "SUCCESS"
       THEN authenticate(p, [r1 EXCEPT !.response = response])
       ELSE IF status = "FAILURE"
       THEN RaiseValueError(p, r1, "OpenID authentication failed")
       ELSE IF status = "CANCEL"
       THEN RaiseValueError(p, r1, "Authentication cancelled")
       ELSE RaiseValueError(p, r1, "Unknown OpenID response type")
    /\ UNCHANGED <<nextUserId, nextAssocId, session, settings, unlinked, openid>>

\* the complete view
complete(p, backend, data, response) ==
    auth_complete(p, "complete", backend, data, response, NoUser)

\* the associate_complete view, of a logged in user
associate_complete(p, backend, data, response, user) ==
    auth_complete(p, "associate_complete", backend, data, response, user.id)

\* rows another open transaction inserted and has not committed: an insert of the
\* same unique key waits for that transaction to end
PendingUsers(p) == {u \in OthersTxUsers(p) : u.id \notin Ids(users)}
PendingAssocs(p) == {a \in OthersTxAssocs(p) : a.id \notin Ids(assocs)}

\* a row another open transaction wrote is locked: a write or delete of it waits
RowLocked(rows, id) == id \in Ids(rows)

\* one turn of the loop of SocialAuthBackend.username: fix the candidate, look it
\* up; when a user has it, go on with the next candidate, else leave the loop with
\* it.  The model follows the loop for MaxProbes + 1 turns.
username_step(p) ==
    LET r == req[p]
        name == fixer(settings, r.name)
        taken == {u.username : u \in VisibleUsers(p)}
    IN
    /\ pc[p] = "username"
    /\ r.idx - 2 <= MaxProbes
    /\ IF name \in taken
       THEN Step(p, [r EXCEPT !.name = next_name(r.username, name, r.idx),
                              !.idx = r.idx + 1],
                 users, assocs, "username")
       ELSE Step(p, [r EXCEPT !.name = name, !.username = name], users, assocs,
                 "create_user")
    /\ UNCHANGED <<nextUserId, nextAssocId, session, settings, unlinked, openid>>

\* User.objects.create_user(username=username, email=email)
create_user(p) ==
    LET r == req[p]
        row == [id |-> nextUserId, username |-> r.username, email |-> r.details.email,
                is_active |-> TRUE, origin |-> <<r.backend, r.uid>>]
    IN
    /\ pc[p] = "create_user"
    /\ ~unique_username(PendingUsers(p), r.username)
    /\ IF unique_username(VisibleUsers(p), r.username)
       THEN /\ RaiseException(p, r, "IntegrityError: username")
            /\ UNCHANGED nextUserId
       ELSE /\ Step(p, Log([r EXCEPT !.user = row, !.is_new = TRUE,
                                     !.txUsers = TxPut(r, @, row)], "create_user"),
                    DbPut(r, users, row), assocs, "associate_auth")
            /\ nextUserId' = nextUserId + 1
    /\ UNCHANGED <<nextAssocId, session, settings, unlinked, openid>>

\* SocialAuthBackend.associate_auth: UserSocialAuth.objects.create(user, uid, provider)
associate_auth(p) ==
    LET r == req[p]
        row == [id |-> nextAssocId, user |-> r.user.id, provider |-> r.backend,
                uid |-> r.uid, extra_data |-> <<>>]
    IN
    /\ pc[p] = "associate_auth"
    /\ ~unique_together(PendingAssocs(p), r.backend, r.uid)
    /\ IF unique_together(VisibleAssocs(p), r.backend, r.uid)
       THEN /\ RaiseException(p, r, "IntegrityError: provider, uid")
            /\ UNCHANGED nextAssocId
       ELSE /\ Step(p, Log([r EXCEPT !.social_user = row,
                                     !.txAssocs = TxPut(r, @, row)], "associate_auth"),
                    users, DbPut(r, assocs, row), "update_user_details")
            /\ nextAssocId' = nextAssocId + 1
    /\ UNCHANGED <<nextUserId, session, settings, unlinked, openid>>

\* (a variant: every detail is assigned)
updatable_any(name) == TRUE

\* name != USERNAME: the username is not updated
updatable(name) == name # "username"

\* (a variant: the signal is sent for every user)
registered_always(is_new) == TRUE

\* if is_new: socialauth_registered.send(**kwargs)
registered_sent(is_new) == is_new

\* (a variant: the setting is not looked at)
change_signal_only_never(config) == FALSE

\* getattr(settings, 'SOCIAL_AUTH_CHANGE_SIGNAL_ONLY', False)
change_signal_only(config) == config.SOCIAL_AUTH_CHANGE_SIGNAL_ONLY

\* getattr(user, name, default)
getattr(user, name, default) == IF name \in DOMAIN user THEN user[name] ELSE default

\* the names of the details that setattr(user, name, value) is called for
assigned(config, user, details) ==
    IF change_signal_only(config) THEN {}
    ELSE {n \in DOMAIN details :
             /\ updatable(n)
             /\ details[n] # ""
             /\ details[n] # getattr(user, n, details[n])}

\* (a variant: the user is saved whatever happened)
changed_always(names, signals) == TRUE

\* changed: a detail was assigned, or a receiver of a signal answered truthy
changed(names, signals) == names # {} \/ signals # {}

\* SocialAuthBackend.update_user_details: assign the details that changed, send
\* pre_update and, for a new user, socialauth_registered (pre, registered: whether a
\* receiver answered truthy), save the user when something changed
update_user_details(p, pre, registered) ==
    LET r == req[p]
        names == assigned(settings, r.user, r.details)
        user == [n \in DOMAIN r.user |->
                    IF n \in names THEN r.details[n] ELSE r.user[n]]
        sent == registered_sent(r.is_new)
        signals == {h \in {"pre_update"} : pre}
                      \cup {h \in {"socialauth_registered"} : sent /\ registered}
        save == changed(names, signals)
        r1 == Log([r EXCEPT !.user = user, !.signals = signals], "pre_update")
        r2 == IF sent THEN Log(r1, "socialauth_registered") ELSE r1
        r3 == IF save
              THEN Log([r2 EXCEPT !.txUsers = TxPut(r, @, user)], "user_save")
              ELSE r2
    IN
    /\ pc[p] = "update_user_details"
    /\ save => ~RowLocked(OthersTxUsers(p), user.id)
    /\ Step(p, r3, IF save THEN DbPut(r, users, user) ELSE users, assocs,
            "extra_data")
    /\ UNCHANGED <<nextUserId, nextAssocId, session, settings, unlinked, openid>>

\* (a variant: the setting is not read)
extra_data_always(config) == TRUE

\* if getattr(settings, 'SOCIAL_AUTH_EXTRA_DATA', True)
extra_data_enabled(config) == config.SOCIAL_AUTH_EXTRA_DATA

\* the end of authenticate: store extra_data on the association unless disabled
\* (Model.save updates the row of that primary key, and inserts it when no row has
\* it), return the user; associate_complete then redirects
store_extra_data(p) ==
    LET r == req[p]
        data == extra_data(r.backend, r.response)
        save == /\ extra_data_enabled(settings)
                /\ data # <<>>
                /\ r.social_user.extra_data # data
        row == [r.social_user EXCEPT !.extra_data = data]
        exists == row.id \in Ids(VisibleAssocs(p))
        others == {a \in VisibleAssocs(p) : a.id # row.id}
        r1 == IF save
              THEN Log([r EXCEPT !.social_user = row, !.txAssocs = TxPut(r, @, row)],
                       "social_user_save")
              ELSE r
        as == IF save THEN DbPut(r, assocs, row) ELSE assocs
    IN
    /\ pc[p] = "extra_data"
    /\ (save /\ exists) => ~RowLocked(OthersTxAssocs(p), row.id)
    /\ (save /\ ~exists) => ~unique_together(PendingAssocs(p), row.provider, row.uid)
    /\ IF save /\ ~exists /\ unique_together(others, row.provider, row.uid)
       THEN RaiseException(p, r, "IntegrityError: provider, uid")
       ELSE IF r.view = "complete"
       THEN Step(p, r1, users, as, "login")
       ELSE End(p, r1, users, as, "redirect_ok", "", r.user.id, NoUser)
    /\ UNCHANGED <<nextUserId, nextAssocId, session, settings, unlinked, openid>>

\* complete_process once auth_complete returned a user: log an active user in, read
\* the user's association with the backend, redirect
complete_process(p) ==
    LET r == req[p]
        social == {a \in VisibleAssocs(p) :
                      a.user = r.user.id /\ a.provider = r.backend}
    IN
    /\ pc[p] = "login"
    /\ IF ~r.user.is_active
       THEN End(p, r, users, assocs, "redirect_error", "", r.user.id, NoUser)
       ELSE IF social = {}
       THEN End(p, Log(r, "login"), users, assocs, "exception", "DoesNotExist",
                r.user.id, r.user.id)
       ELSE IF Cardinality(social) > 1
       THEN End(p, Log(r, "login"), users, assocs, "exception",
                "MultipleObjectsReturned", r.user.id, r.user.id)
       ELSE End(p, Log(r, "login"), users, assocs, "redirect_ok", "", r.user.id,
                r.user.id)
    /\ UNCHANGED <<nextUserId, nextAssocId, session, settings, unlinked, openid>>

\* (a variant: the rows stay)
delete_nothing(rows, gone) == rows

\* QuerySet.delete() of the rows `gone`
delete(rows, gone) == rows \ gone

\* the disconnect view, BaseAuth.disconnect: delete the user's associations with
\* the backend
\* (a variant: the rows of the provider, of whatever user)
social_auth_any_user(rows, user, provider) == {a \in rows : a.provider = provider}

\* user.social_auth.filter(provider=self.AUTH_BACKEND.name)
social_auth(rows, user, provider) ==
    {a \in rows : a.user = user.id /\ a.provider = provider}

disconnect(p, backend, user) ==
    LET gone == social_auth(assocs, user, backend) IN
    /\ pc[p] = "idle"
    /\ get_backend(backend) # NoBackend
    /\ \A a \in gone : ~RowLocked(OthersTxAssocs(p), a.id)
    /\ assocs' = delete(assocs, gone)
    /\ unlinked' = unlinked \cup gone
    /\ req' = [req EXCEPT ![p] = [IdleReq EXCEPT !.view = "disconnect",
                                                 !.backend = backend,
                                                 !.kwuser = user.id,
                                                 !.http = "redirect_ok"]]
    /\ pc' = [pc EXCEPT ![p] = "done"]
    /\ UNCHANGED <<users, nextUserId, nextAssocId, session, settings, openid>>

\* the response is sent and the request thread is free again
respond(p) ==
    /\ pc[p] = "done"
    /\ pc' = [pc EXCEPT ![p] = "idle"]
    /\ req' = [req EXCEPT ![p] = IdleReq]
    /\ UNCHANGED <<users, assocs, nextUserId, nextAssocId, session, settings,
                   unlinked, openid>>

\* --------------------------------------------------------------------- Next

\* the server hands a request to its first free thread
Free(p) == pc[p] = "idle" /\ \A q \in Procs : pc[q] = "idle" => Rank[p] <= Rank[q]

\* a step of request thread p, the browser using the backends of `backends`, the
\* provider issuing unauthorized tokens of `keys` and answering with `responses`,
\* the views of `views` being asked for a backend that does not exist
Request(p, backends, keys, responses, views) ==
    \/ \E b \in backends \cap OAuthBackends, k \in keys : Free(p) /\ auth(p, b, k)
    \/ \E b \in backends \cap OAuthBackends, d \in CallbackData, resp \in responses :
          Free(p) /\ complete(p, b, d, resp)
    \/ \E b \in backends \cap OAuthBackends, d \in CallbackData, resp \in responses,
          u \in users : Free(p) /\ associate_complete(p, b, d, resp, u)
    \/ username_step(p)
    \/ create_user(p)
    \/ associate_auth(p)
    \/ \E pre \in BOOLEAN, registered \in BOOLEAN :
          update_user_details(p, pre, registered)
    \/ store_extra_data(p)
    \/ complete_process(p)
    \/ \E b \in backends, u \in users : Free(p) /\ disconnect(p, b, u)
    \/ \E v \in views, b \in UnknownBackends : Free(p) /\ incorrect_service(p, v, b)
    \/ respond(p)

\* the completion views of request thread p called for the OpenID backend
OpenIDRequest(p) ==
    \/ \E st \in OpenIDStatus, resp \in OpenIDResponses :
          Free(p) /\ openid_auth_complete(p, "complete", st, resp, NoUser)
    \/ \E st \in OpenIDStatus, resp \in OpenIDResponses, u \in users :
          Free(p) /\ openid_auth_complete(p, "associate_complete", st, resp, u.id)

\* the request threads run concurrently, under the default settings, the browser
\* using one backend, and asking the complete view alone for an unknown one
Next == \E p \in Procs : Request(p, {"twitter"}, {"tk1"}, Responses, {"complete"})

Spec == Init /\ [][Next]_vars

\* one thread serves every request, so that requests run one at a time, under
\* every configuration, backend and token key
NextSequential ==
    \E p \in {"r1"} : Request(p, OAuthBackends, TokenKeys, Responses, Views)

SpecSequential == InitSequential /\ [][NextSequential]_vars

\* one thread serves every request, under either fixer and every table of
\* registered users
NextUsername ==
    \E p \in {"r1"} : Request(p, {"twitter"}, {"tk1"}, Responses, Views)

SpecUsername == InitUsername /\ [][NextUsername]_vars

\* one thread serves every request, under every configuration of the switches, the
\* browser using an OAuth backend, whose access token changes, and the OpenID
\* backend
InitExtraData == InitWith({UserRows({"bob"}, TRUE)}, Settings)

NextExtraData ==
    \E p \in {"r1"} :
        \/ Request(p, {"twitter", OpenID}, {"tk1"},
                   {r \in ResponsesOf({"at1", "at2"}) : r.id = "123"}, Views)
        \/ OpenIDRequest(p)

SpecExtraData == InitExtraData /\ [][NextExtraData]_vars

\* one thread serves every request, the values being left to the signal handlers
\* only or not, the provider answering with no email or either of two and with no
\* full name or one
DetailSettings == {[DefaultSettings EXCEPT !.SOCIAL_AUTH_CHANGE_SIGNAL_ONLY = c] :
                      c \in BOOLEAN}

DetailResponses == [id : {"123"}, username : Usernames,
                    email : {"", "a@x.org", "b@x.org"},
                    fullname : {"", "Alice A"}, access_token : AccessTokens]

InitDetails == InitWith({UserRows({"bob"}, TRUE)}, DetailSettings)

NextDetails ==
    \E p \in {"r1"} : Request(p, {"twitter"}, {"tk1"}, DetailResponses, Views)

SpecDetails == InitDetails /\ [][NextDetails]_vars

\* one thread serves every request, the random username forced or not, the default
\* username not set, a value or a callable, the provider's answer holding a
\* username, an empty one or none
BaseNameSettings ==
    {[DefaultSettings EXCEPT !.SOCIAL_AUTH_FORCE_RANDOM_USERNAME = f,
                             !.SOCIAL_AUTH_DEFAULT_USERNAME = d] :
        f \in BOOLEAN, d \in DefaultUsernames}

BaseNameResponses ==
    [id : {"123"}, username : Usernames \cup {""}, email : Emails,
     fullname : Fullnames, access_token : AccessTokens]
        \cup [id : {"123"}, email : Emails, fullname : Fullnames,
              access_token : AccessTokens]

InitBaseName == InitWith({UserRows({"bob"}, TRUE)}, BaseNameSettings)

NextBaseName ==
    \E p \in {"r1"} : Request(p, {"twitter"}, {"tk1"}, BaseNameResponses, Views)

SpecBaseName == InitBaseName /\ [][NextBaseName]_vars

\* the attribute mapper alone, given any response of Profiles
InitOpenID ==
    /\ InitRequests({UserRows({"bob"}, TRUE)}, {DefaultSettings})
    /\ openid \in {Unmapped(r) : r \in Profiles}

NextOpenID == openid_get_user_details

SpecOpenID == InitOpenID /\ [][NextOpenID]_vars

\* ------------------------------------------------------------------- claims

Has(events, e) == \E i \in DOMAIN events : events[i] = e

\* the committed associations of the pair k = <<provider, uid>>
AssocsOf(k) == {a \in assocs : <<a.provider, a.uid>> = k}

PairOf(r) == <<r.backend, r.uid>>

Completing == {"complete", "associate_complete"}

Hooks(events) == Has(events, "pre_update") \/ Has(events, "socialauth_registered")

\* p starts a complete or associate_complete request in this step
Starts(p) == pc[p] = "idle" /\ req'[p].view \in Completing

\* C1: in every reachable state the committed association table holds at most one
\* row per (provider, uid), whatever logins, associations and disconnects ran.
C1_UniqueAssociation ==
    \A a, b \in assocs : (a.provider = b.provider /\ a.uid = b.uid) => a = b

\* a second creation for an associated pair was attempted and refused
C1_Witness ==
    \E p \in Procs :
        /\ pc[p] = "done"
        /\ req[p].error = "IntegrityError: provider, uid"
        /\ AssocsOf(PairOf(req[p])) # {}

C2_Found ==
    \A p \in Procs :
        LET r == req'[p]
            k == PairOf(r)
        IN
        (Starts(p) /\ r.view = "complete" /\ Has(r.events, "lookup")
            /\ AssocsOf(k) # {}) =>
            /\ pc'[p] = "update_user_details"
            /\ \E a \in AssocsOf(k) : AssocsOf(k) = {a} /\ r.user.id = a.user

C2_Returns ==
    \A p \in Procs :
        LET r == req'[p]
            k == PairOf(r)
            rows == {a \in assocs' : <<a.provider, a.uid>> = k}
        IN
        (pc[p] = "login" /\ pc'[p] = "done") =>
            /\ r.returned = req[p].user.id
            /\ \E a \in rows : rows = {a} /\ a.user = r.returned
            /\ ~r.is_new =>
                 /\ Ids(rows) = Ids(AssocsOf(k))
                 /\ Ids(users') = Ids(users)
                 /\ ~Has(r.events, "create_user")
                 /\ ~Has(r.events, "associate_auth")
            /\ r.is_new =>
                 /\ AssocsOf(k) = {}
                 /\ {u \in users' : u.id \notin Ids(users)}
                       = {u \in users' : u.id = r.returned}

\* C2: with one request at a time, a login that returns a user leaves the pair with
\* exactly one association row, bound to the returned user, and a login for a pair
\* that has a row goes on with that row's user and creates no user and no row: a
\* first login creates one user and one row, every later one returns that user.
C2_IdempotentLogin == [][C2_Found /\ C2_Returns]_vars

\* a second login returned the user the first login created for the pair
C2_Witness ==
    \E p \in Procs :
        /\ pc[p] = "done"
        /\ req[p].view = "complete"
        /\ req[p].http = "redirect_ok"
        /\ ~req[p].is_new
        /\ \E u \in users : u.id = req[p].returned /\ u.origin = PairOf(req[p])

C3_AtMostOne == \A k \in Pairs : Cardinality(AssocsOf(k)) <= 1

C3_Commit ==
    \A k \in Pairs :
        LET created == {u \in users' : u.origin = k /\ u.id \notin Ids(users)} IN
        created # {} =>
            /\ AssocsOf(k) = {}
            /\ \E u \in created, a \in assocs' :
                  /\ created = {u}
                  /\ AssocsOf(k)' = {a}
                  /\ a.user = u.id

\* C3: with the callbacks' statements interleaved, the committed tables never hold
\* two associations of a pair, and a user created for a pair is committed only
\* while the pair has no association and together with the pair's one association,
\* bound to that user: two callbacks for an unseen pair commit one user, not two.
C3_NoDuplicateCreation == [](C3_AtMostOne) /\ [][C3_Commit]_vars

\* two callbacks for the same unseen pair both created a user; one committed and
\* the other was refused and rolled back
C3_Witness ==
    \E p, q \in Procs :
        /\ p # q
        /\ pc[p] = "done" /\ pc[q] = "done"
        /\ req[p].is_new /\ req[q].is_new
        /\ PairOf(req[p]) = PairOf(req[q])
        /\ req[p].http = "redirect_ok"
        /\ req[q].error = "IntegrityError: provider, uid"
        /\ Cardinality({u \in users : u.origin = PairOf(req[p])}) = 1

\* C4: a uniqueness violation met when the association is created is caught and
\* answered as a read of the existing association: no request ends with it.
C4_ViolationCaught ==
    \A p \in Procs :
        pc[p] = "done" => req[p].error # "IntegrityError: provider, uid"

C5_Conflict ==
    \A p \in Procs :
        LET r == req'[p] IN
        (/\ Starts(p)
         /\ r.view = "associate_complete"
         /\ Has(r.events, "lookup")
         /\ \E a \in AssocsOf(PairOf(r)) : a.user # r.kwuser) =>
            /\ pc'[p] = "done"
            /\ r.error = "Account already in use."
            /\ r.returned = NoUser
            /\ ~Hooks(r.events)
            /\ assocs' = assocs
            /\ users' = users
            /\ nextUserId' = nextUserId
            /\ nextAssocId' = nextAssocId

\* C5: authenticate for an associated pair with an existing user other than the
\* association's user ends at once with "Account already in use.", returns no user,
\* sends no signal and leaves both tables as they were.
C5_AccountConflict == [][C5_Conflict]_vars

\* a request ended with the conflict while the pair stays bound to the other user
C5_Witness ==
    \E p \in Procs :
        /\ pc[p] = "done"
        /\ req[p].error = "Account already in use."
        /\ \E a \in AssocsOf(PairOf(req[p])) : a.user # req[p].kwuser

C6_Gone == \A a \in assocs : a.id \notin Ids(unlinked)

C6_Relogin ==
    \A p \in Procs :
        LET r == req'[p]
            k == PairOf(r)
        IN
        (/\ Starts(p)
         /\ r.view = "complete"
         /\ Has(r.events, "lookup")
         /\ \E d \in unlinked : <<d.provider, d.uid>> = k
         /\ AssocsOf(k) = {}) =>
            /\ r.social_user = NoAssoc
            /\ pc'[p] # "update_user_details"
            /\ settings.SOCIAL_AUTH_CREATE_USERS => pc'[p] = "username"

C6_Fresh ==
    \A p \in Procs :
        (pc[p] = "associate_auth" /\ pc'[p] = "update_user_details") =>
            LET a == req'[p].social_user IN
            /\ a.id \notin Ids(unlinked)
            /\ a.id \notin Ids(assocs)
            /\ a.extra_data = <<>>
            /\ a \in assocs' \cup req'[p].txAssocs

\* C6: with one request at a time, a row disconnect deleted is never in the
\* association table again; a login for the pair of a deleted row, not associated
\* again since, finds no association and goes on to create, and the row
\* associate_auth creates has an id no deleted and no present row has.
C6_NeverResurrected == [](C6_Gone) /\ [][C6_Relogin /\ C6_Fresh]_vars

\* a login after the disconnect created a user and a new row for the pair
C6_Witness ==
    \E p \in Procs :
        /\ pc[p] = "done"
        /\ req[p].view = "complete"
        /\ req[p].http = "redirect_ok"
        /\ req[p].is_new
        /\ \E d \in unlinked : <<d.provider, d.uid>> = PairOf(req[p])
        /\ \E a \in AssocsOf(PairOf(req[p])) :
              a.id \notin Ids(unlinked) /\ a.user = req[p].returned

C7_Missing ==
    \A p \in Procs :
        (/\ Starts(p)
         /\ req'[p].backend \in OAuthBackends
         /\ session[req'[p].backend] = NoToken) =>
            /\ pc'[p] = "done"
            /\ req'[p].error = "Missing unauthorized token"
            /\ req'[p].events = <<"session_get">>
            /\ req'[p].returned = NoUser

\* C7: complete-auth on a session holding no unauthorized token of that backend
\* ends with "Missing unauthorized token" right after reading the session: nothing
\* is compared, the provider is not asked, authenticate is not called.
C7_MissingPendingState == [][C7_Missing]_vars

\* the request failed for the missing token while the session holds the token of
\* another backend
C7_Witness ==
    \E p \in Procs :
        /\ pc[p] = "done"
        /\ req[p].error = "Missing unauthorized token"
        /\ \E b \in OAuthBackends : session[b] # NoToken

\* C8: a complete-auth that used the pending token has deleted it from the session.
C8_SingleUse ==
    \A p \in Procs :
        (pc[p] = "done" /\ req[p].view \in Completing
            /\ Has(req[p].events, "access_token")) =>
            session[req[p].backend] = NoToken

C9_Mismatch ==
    \A p \in Procs :
        LET r == req'[p]
            pending == session[r.backend]
        IN
        (/\ Starts(p)
         /\ r.backend \in OAuthBackends
         /\ pending # NoToken
         /\ (r.data = <<>> \/ r.data # <<from_string(pending).key>>)) =>
            /\ pc'[p] = "done"
            /\ r.error = "Incorrect tokens"
            /\ ~Has(r.events, "access_token")
            /\ ~Has(r.events, "user_data")
            /\ ~Has(r.events, "authenticate")

\* C9: complete-auth whose callback carries another token key than the pending one,
\* or none, ends with "Incorrect tokens" before the access-token exchange, the
\* profile fetch and authenticate.
C9_TokenMismatch == [][C9_Mismatch]_vars

C10_Disabled ==
    \A p \in Procs :
        LET r == req'[p] IN
        (/\ Starts(p)
         /\ r.view = "complete"
         /\ Has(r.events, "lookup")
         /\ AssocsOf(PairOf(r)) = {}
         /\ ~settings.SOCIAL_AUTH_CREATE_USERS) =>
            /\ pc'[p] = "done"
            /\ r.returned = NoUser
            /\ r.login = NoUser
            /\ r.http = "redirect_error"
            /\ ~Hooks(r.events)
            /\ ~Has(r.events, "create_user")
            /\ ~Has(r.events, "associate_auth")
            /\ users' = users
            /\ assocs' = assocs
            /\ nextUserId' = nextUserId
            /\ nextAssocId' = nextAssocId

\* C10: a login for a pair without association, with SOCIAL_AUTH_CREATE_USERS off,
\* returns no user: no user and no association is created, no signal is sent, the
\* view logs nobody in and redirects to the error page.
C10_AutoCreateDisabled == [][C10_Disabled]_vars

\* a login reached the lookup with account creation off and ended without a user
C10_Witness ==
    \E p \in Procs :
        /\ pc[p] = "done"
        /\ req[p].view = "complete"
        /\ Has(req[p].events, "lookup")
        /\ ~settings.SOCIAL_AUTH_CREATE_USERS
        /\ req[p].returned = NoUser
        /\ req[p].http = "redirect_error"

\* the user rows of the table and of the open transactions
AllUsers == users \cup UNION {req[q].txUsers : q \in Procs}

Count(events, e) == Cardinality({i \in DOMAIN events : events[i] = e})

Pos(events, e) == CHOOSE i \in DOMAIN events : events[i] = e

C11_Create ==
    (Ids(AllUsers') \ Ids(AllUsers) # {}) =>
        \E p \in Procs :
            /\ pc[p] = "create_user"
            /\ pc'[p] = "associate_auth"
            /\ Ids(AllUsers') \ Ids(AllUsers) = {req'[p].user.id}
            /\ req[p].kwuser = NoUser
            /\ settings.SOCIAL_AUTH_CREATE_USERS
            /\ AssocsOf(PairOf(req[p])) = {}

C11_Bind ==
    \A p \in Procs :
        (/\ pc[p] = "associate_auth"
         /\ pc'[p] = "update_user_details"
         /\ req[p].kwuser # NoUser) =>
            /\ req'[p].social_user.user = req[p].kwuser
            /\ req'[p].social_user \in assocs'
            /\ AssocsOf(PairOf(req[p])) = {}
            /\ ~Has(req[p].events, "create_user")
            /\ AllUsers' = AllUsers

C11_NoDelete == Ids(users) \subseteq Ids(users')

\* C11: a user row is created only by a request without user, with
\* SOCIAL_AUTH_CREATE_USERS on, whose pair has no association; a request with a
\* user whose pair has no association binds the new association to that user and
\* leaves the users as they are; no user is ever deleted.
C11_CreateOnlyWhenNew == [][C11_Create /\ C11_Bind /\ C11_NoDelete]_vars

\* an associate request bound a new association to its user, after a login had
\* created a user
C11_Witness ==
    \E p \in Procs :
        /\ pc[p] = "done"
        /\ req[p].view = "associate_complete"
        /\ req[p].http = "redirect_ok"
        /\ Has(req[p].events, "associate_auth")
        /\ \E a \in AssocsOf(PairOf(req[p])) : a.user = req[p].kwuser
        /\ \E u \in users : u.origin # NoPair

C14_Unknown ==
    \A p \in Procs :
        (/\ pc[p] = "idle"
         /\ pc'[p] = "done"
         /\ get_backend(req'[p].backend) = NoBackend) =>
            /\ req'[p].http = "client_error"
            /\ req'[p].error = ""
            /\ session' = session
            /\ users' = users
            /\ assocs' = assocs

\* C14: a view called with a backend name the registry does not hold answers with
\* a client-error response, raises nothing and leaves the session, the users and
\* the associations as they were.
C14_UnknownBackend == [][C14_Unknown]_vars

\* the ValueErrors of auth_complete and authenticate
AuthErrors ==
    {"Missing unauthorized token", "Incorrect tokens", "Account already in use.",
     "This is an OpenID relying party endpoint", "OpenID authentication failed",
     "Authentication cancelled", "Unknown OpenID response type"}

\* C15: a completion request, login or associate, that met an error of the protocol
\* client or of authenticate ends with the redirect to the error page, never with
\* an exception leaving the view.
C15_ErrorsTranslated ==
    \A p \in Procs :
        (pc[p] = "done" /\ req[p].view \in Completing /\ req[p].error \in AuthErrors)
            => req[p].http = "redirect_error"

\* C17: no step changes the username of a user row that exists, in the table or in
\* an open transaction.
C17_UsernameKept ==
    [][\A u \in AllUsers : \A v \in AllUsers' :
          u.id = v.id => v.username = u.username]_vars

\* a request saved an existing user whose username differs from the profile's
C17_Witness ==
    \E p \in Procs :
        /\ pc[p] = "done"
        /\ ~req[p].is_new
        /\ Has(req[p].events, "user_save")
        /\ \E u \in users :
              /\ u.id = req[p].returned
              /\ u.username # req[p].details.username
              /\ u.email = req[p].details.email

\* C20: a request whose authenticate resolved a user sent pre_update exactly once,
\* and sent socialauth_registered, once, exactly when it created a user, after
\* pre_update and after the association was created.
C20_Hooks ==
    \A p \in Procs :
        LET e == req[p].events IN
        (pc[p] \in {"extra_data", "login"} \/ (pc[p] = "done" /\ req[p].returned # NoUser))
            =>
            /\ Count(e, "pre_update") = 1
            /\ Has(e, "socialauth_registered") <=> Has(e, "create_user")
            /\ Count(e, "socialauth_registered") <= 1
            /\ Has(e, "socialauth_registered") =>
                 /\ Has(e, "associate_auth")
                 /\ Pos(e, "pre_update") < Pos(e, "socialauth_registered")
                 /\ Pos(e, "associate_auth") < Pos(e, "socialauth_registered")

\* a login created a user and sent both signals
C20_Witness ==
    \E p \in Procs :
        /\ pc[p] = "done"
        /\ req[p].is_new
        /\ req[p].returned # NoUser
        /\ Has(req[p].events, "socialauth_registered")

C12_Name ==
    \A p \in Procs :
        LET taken == {u.username : u \in VisibleUsers(p)}
            base == req[p].details.username
            res == req'[p].username
        IN
        (/\ pc[p] = "username"
         /\ pc'[p] = "create_user"
         /\ settings.SOCIAL_AUTH_USERNAME_FIXER = "identity") =>
            /\ res \notin taken
            /\ base \notin taken => res = base
            /\ base \in taken =>
                 \E k \in 2..(Cardinality(taken) + 1) :
                     /\ res = base \o ToString(k)
                     /\ \A j \in 2..(k - 1) : base \o ToString(j) \in taken

\* C12: with the identity fixer and one request at a time, the loop leaves with the
\* base name when no user has it, else with the base name and the smallest suffix
\* k >= 2 for which no user has base+k; no user has the name it leaves with.
C12_UsernameGenerated == [][C12_Name]_vars

\* with users alice and alice2, the base name alice gave alice3
C12_Witness ==
    \E p \in Procs :
        /\ pc[p] = "create_user"
        /\ req[p].details.username = "alice"
        /\ req[p].username = "alice3"
        /\ {"alice", "alice2"} \subseteq {u.username : u \in users}

\* C13: the loop of username ends within MaxProbes probes, for every fixer: it is
\* never in a further turn.
C13_LoopBounded ==
    \A p \in Procs : pc[p] = "username" => req[p].idx - 2 <= MaxProbes

\* the request of p goes on with an association its lookup found
Found(p) ==
    /\ pc[p] \notin {"idle", "done"}
    /\ req[p].social_user # NoAssoc
    /\ ~Has(req[p].events, "associate_auth")

C18_Frame ==
    \A p \in Procs :
        Found(p) =>
            LET before == VisibleAssocs(p)
                after == Overlay(assocs', req'[p].txAssocs)
            IN
            /\ Ids(after) = Ids(before)
            /\ \A a \in before : \A c \in after :
                  a.id = c.id =>
                      /\ c.user = a.user
                      /\ c.provider = a.provider
                      /\ c.uid = a.uid
                      /\ a.id # req[p].social_user.id => c = a
                      /\ ~settings.SOCIAL_AUTH_EXTRA_DATA => c = a
            /\ ~settings.SOCIAL_AUTH_EXTRA_DATA =>
                  ~Has(req'[p].events, "social_user_save")

\* C18: with one request at a time, a request whose lookup found the association
\* changes nothing of the association table but the extra_data of that row, and
\* writes no association at all when SOCIAL_AUTH_EXTRA_DATA is off.
C18_OnlyExtraData == [][C18_Frame]_vars

\* a login for an associated pair stored another access token on the row
C18_Witness ==
    \E p \in Procs :
        /\ pc[p] = "done"
        /\ req[p].http = "redirect_ok"
        /\ ~Has(req[p].events, "associate_auth")
        /\ Has(req[p].events, "social_user_save")
        /\ \E a \in AssocsOf(PairOf(req[p])) :
              a.extra_data = extra_data(req[p].backend, req[p].response)

C19_Stored ==
    \A p \in Procs :
        (/\ pc[p] = "extra_data"
         /\ pc'[p] \in {"login", "done"}
         /\ req'[p].http # "exception"
         /\ settings.SOCIAL_AUTH_EXTRA_DATA) =>
            \E a \in Overlay(assocs', req'[p].txAssocs) :
                /\ a.id = req[p].social_user.id
                /\ a.extra_data = extra_data(req[p].backend, req[p].response)

\* C19: with SOCIAL_AUTH_EXTRA_DATA on, when authenticate returns the user the
\* association's extra_data is the extra data computed from the response of that
\* call, the empty one included.
C19_ExtraDataStored == [][C19_Stored]_vars

\* the values get_user_details worked on, and the set of a text's characters
C16_Values == openid_values(openid.response)
C16_Chars(s) == {s[i] : i \in 1..Len(s)}

\* only a full name, holding a space: first name and last name are what stands
\* before and after its last space
C16_Split ==
    (/\ C16_Values["fullname"] # Empty /\ " " \in C16_Chars(C16_Values["fullname"])
     /\ C16_Values["first_name"] = Empty /\ C16_Values["last_name"] = Empty)
    => /\ openid.details["first_name"] \o <<" ">> \o openid.details["last_name"]
            = C16_Values["fullname"]
       /\ " " \notin C16_Chars(openid.details["last_name"])
       /\ openid.details["fullname"] = C16_Values["fullname"]

\* only a first and a last name: the full name is the two joined by one space
C16_Join ==
    (/\ C16_Values["fullname"] = Empty
     /\ C16_Values["first_name"] # Empty /\ C16_Values["last_name"] # Empty)
    => /\ openid.details["fullname"]
            = C16_Values["first_name"] \o <<" ">> \o C16_Values["last_name"]
       /\ openid.details["first_name"] = C16_Values["first_name"]
       /\ openid.details["last_name"] = C16_Values["last_name"]

\* whatever the response: answered first and last names, both non-empty, make up
\* the answered full name
C16_Consistent ==
    (openid.details["first_name"] # Empty /\ openid.details["last_name"] # Empty)
    => openid.details["fullname"]
          = openid.details["first_name"] \o <<" ">> \o openid.details["last_name"]

C26_Frame ==
    \A p \in Procs :
        (pc[p] = "idle" /\ req'[p].view = "disconnect"
            /\ get_backend(req'[p].backend) # NoBackend) =>
            /\ assocs' = {a \in assocs : ~(a.user = req'[p].kwuser
                                             /\ a.provider = req'[p].backend)}
            /\ users' = users
            /\ session' = session
            /\ pc'[p] = "done"
            /\ req'[p].http = "redirect_ok"
            /\ req'[p].error = ""

\* C26: disconnect deletes the associations of that user with that provider and no
\* other row; users and the session's unauthorized tokens stay as they were, and
\* with no such association it changes nothing and still answers the redirect.
C26_DisconnectFrame == [][C26_Frame]_vars

\* a disconnect deleted a row while another user keeps a row of the same provider
C26_Witness ==
    \E p \in Procs :
        /\ pc[p] = "done"
        /\ req[p].view = "disconnect"
        /\ req[p].http = "redirect_ok"
        /\ \E d \in unlinked : d.user = req[p].kwuser /\ d.provider = req[p].backend
        /\ \E a \in assocs : a.user # req[p].kwuser /\ a.provider = req[p].backend

\* a disconnect of a user without an association of the provider was answered
C26_NoOp ==
    \E p \in Procs :
        /\ pc[p] = "done"
        /\ req[p].view = "disconnect"
        /\ req[p].http = "redirect_ok"
        /\ assocs # {}
        /\ unlinked = {}

\* no two rows of the user table share a username
C25_Unique == \A u, v \in users : u.username = v.username => u.id = v.id

\* the logins of p and q, for different identities whose profiles carry the same
\* username, both generated a username and are both answered
C25_Raced(p, q) ==
    /\ p # q
    /\ pc[p] = "done" /\ pc[q] = "done"
    /\ req[p].view = "complete" /\ req[q].view = "complete"
    /\ req[p].idx >= 2 /\ req[q].idx >= 2
    /\ req[p].uid # req[q].uid
    /\ req[p].details.username = req[q].details.username

\* the login of p created a user, who is in the table
C25_Created(p) ==
    /\ req[p].is_new
    /\ req[p].returned # NoUser
    /\ \E u \in users : u.id = req[p].returned /\ u.username = req[p].username

\* C25: two logins for different new identities with the same base username, their
\* lookups and creations interleaved in any way, each create a user, with different
\* usernames; and in every state no two users share a username.
C25_DistinctUsernames ==
    /\ C25_Unique
    /\ \A p, q \in Procs :
          C25_Raced(p, q) =>
              /\ C25_Created(p) /\ C25_Created(q)
              /\ req[p].username # req[q].username

\* the values merged from the response
C24_Merged == openid_values(openid.response)

\* C24: of an Attribute Exchange response, for each of email, fullname and nickname
\* the merged value is the one under the current schema when that is not empty,
\* and the one under the old schema when the current one is absent or empty.
C24_SchemaPrecedence ==
    (openid.called /\ openid.response.ax.present) =>
        \A n \in {"email", "fullname", "nickname"} :
            LET current == openid.response.ax[n]
                legacy == openid.response.ax["old_" \o n]
            IN  /\ current # Empty => C24_Merged[n] = current
                /\ (current = Empty /\ legacy # Empty) => C24_Merged[n] = legacy

\* the current schema's value wins over the old schema's, both present
C24_CurrentFirst ==
    (openid.called /\ openid.response.ax.present) =>
        \A n \in {"email", "fullname", "nickname"} :
            openid.response.ax[n] # Empty => C24_Merged[n] = openid.response.ax[n]

\* p runs update_user_details in this step
C21_Updates(p) == pc[p] = "update_user_details" /\ pc'[p] = "extra_data"

C21_Saved ==
    \A p \in Procs :
        C21_Updates(p) =>
            LET saved == Has(req'[p].events, "user_save")
                row == req'[p].user
            IN  /\ saved <=> (req'[p].user # req[p].user \/ req'[p].signals # {})
                /\ saved => row \in Overlay(users', req'[p].txUsers)
                /\ ~saved => users' = users /\ req'[p].txUsers = req[p].txUsers

\* C21: update_user_details saves the user if and only if it assigned a detail onto
\* the user or a receiver of pre_update or socialauth_registered answered truthy;
\* otherwise no row is written.
C21_SavedIffChanged == [][C21_Saved]_vars

\* a user was saved on a receiver's answer alone, no detail being assigned
C21_Witness ==
    \E p \in Procs :
        /\ pc[p] = "extra_data"
        /\ Has(req[p].events, "user_save")
        /\ req[p].signals # {}
        /\ req[p].social_user # NoAssoc
        /\ req[p].user \in users
        /\ req[p].details.email \in {"", req[p].user.email}

C22_Assign ==
    \A p \in Procs :
        C21_Updates(p) =>
            LET user == req[p].user
                details == req[p].details
            IN  /\ DOMAIN req'[p].user = DOMAIN user
                /\ \A n \in DOMAIN user :
                      req'[p].user[n] =
                          IF /\ ~settings.SOCIAL_AUTH_CHANGE_SIGNAL_ONLY
                             /\ n \in DOMAIN details
                             /\ n # "username"
                             /\ details[n] # ""
                             /\ details[n] # user[n]
                          THEN details[n] ELSE user[n]

\* C22: update_user_details assigns a detail onto the user exactly when it is not
\* the username, its value is not empty and differs from the user's value of that
\* field; with SOCIAL_AUTH_CHANGE_SIGNAL_ONLY set it assigns no field at all.
C22_FieldSync == [][C22_Assign]_vars

\* the email of a registered user was replaced by the different email of this
\* profile, the username staying
C22_Witness ==
    \E p \in Procs :
        /\ pc[p] = "extra_data"
        /\ ~settings.SOCIAL_AUTH_CHANGE_SIGNAL_ONLY
        /\ req[p].user.username = "bob"
        /\ req[p].user.email = "b@x.org"
        /\ \E u \in users : u.id = req[p].user.id /\ u.email = "b@x.org"
        /\ req[p].details.email = "b@x.org"
        /\ req[p].details.username # "bob"

\* with SOCIAL_AUTH_CHANGE_SIGNAL_ONLY a profile with another email left the user's
C22_Disabled ==
    \E p \in Procs :
        /\ pc[p] = "extra_data"
        /\ settings.SOCIAL_AUTH_CHANGE_SIGNAL_ONLY
        /\ req[p].details.email \notin {"", req[p].user.email}

C23_Base ==
    \A p \in Procs :
        (Starts(p) /\ pc'[p] = "username") =>
            LET details == req'[p].details
                default == settings.SOCIAL_AUTH_DEFAULT_USERNAME
            IN  IF settings.SOCIAL_AUTH_FORCE_RANDOM_USERNAME
                THEN req'[p].username \in RandomNames
                ELSE IF "username" \in DOMAIN details /\ details.username # ""
                THEN req'[p].username = details.username
                ELSE IF default.hasattr
                THEN req'[p].username = default.value
                ELSE req'[p].username \in RandomNames

\* C23: the name username() begins with is a random token when
\* SOCIAL_AUTH_FORCE_RANDOM_USERNAME is set; else the profile's username when it has
\* one; else SOCIAL_AUTH_DEFAULT_USERNAME when set, its value or what it answers
\* when called; else a random token.  A profile whose username is empty or absent
\* gets the default.
C23_BaseName == [][C23_Base]_vars

\* the same with an empty username of the profile taken as it is
C23_BaseAsCoded ==
    [][\A p \in Procs :
          (Starts(p) /\ pc'[p] = "username") =>
              \/ req'[p].username = base_username_nonempty(settings, req'[p].details,
                                                           req'[p].username)
              \/ /\ ~settings.SOCIAL_AUTH_FORCE_RANDOM_USERNAME
                 /\ "username" \in DOMAIN req'[p].details
                 /\ req'[p].details.username = ""
                 /\ req'[p].username = ""]_vars

====
